---- MODULE Spec2Model ----
(***************************************************************************)
(* EduBot queue cog (src/src/edubot/cogs/queue.py): the Review queue of    *)
(* one channel.  `queue` is Queue.queue, `assigned` is                     *)
(* ReviewQueue.assigned, `ready` is the set of members for whom            *)
(* readymovevoice() holds, `out` is the outcome of the last command (the   *)
(* message the command sends, named after the result it stands for),       *)
(* `tasks` holds the frames of the takenext coroutines that are suspended  *)
(* at an await, and `disk` is the record Queue.save last wrote.  `taken`   *)
(* is a history variable: the members takenext has returned and that have  *)
(* not called queueme since.  `queues` is the registry Queue.queues with   *)
(* the queue objects of every channel, `files` the json files of           *)
(* Queue.datadir, `amends` the frames of the suspended amend coroutines    *)
(* and `qcalls` the frames of the suspended ask and answer coroutines.     *)
(***************************************************************************)
EXTENDS Integers, Sequences, FiniteSets, TLC

VARIABLES queue, assigned, ready, out, taken, tasks, disk,
          queues, files, snap, amends, qcalls

vars == <<queue, assigned, ready, out, taken, tasks, disk, queues, files, snap, amends,
          qcalls>>

\* The one Review queue of the takenext specifications.
revvars == <<queue, assigned, ready, taken, tasks, disk>>

\* The registry Queue.queues, the json files of Queue.datadir, and the
\* amend, ask and answer coroutines that are suspended at an await.  `snap`
\* is a history variable: each queue object as it was when Queue.save last
\* wrote its file.
regvars == <<queues, files, snap, amends, qcalls>>

\* ---------------------------------------------------------------- bounds
\* NumPart: the members that use the queue.  FairLen: the longest queue of
\* SpecFair, long enough for the insert position to reach its cap.
NumPart == 2
FairLen == 24

Participants == 1..NumPart

\* The two takenext coroutines that may be in flight, and who called them.
Calls == {1, 2}
Caller(c) == NumPart + c
Reviewers == {Caller(c) : c \in Calls}

\* The reviewer of the sequential specifications.
Staff == {Caller(1)}

\* The pos arguments of putback, and the length up to which putback runs
\* (putback can insert a member any number of times).
PosArgs == -1..(NumPart - 1)
MaxQueue == NumPart

\* The queue id (guild id, channel id) of the one queue modelled.
QID == <<1, 1>>

\* The cap of the insert position in ReviewQueue.takenext.
InsertCap == 10

\* ----------------------------------------------------- python list helpers
Range(s) == {s[i] : i \in 1..Len(s)}

Min(a, b) == IF a <= b THEN a ELSE b

Max(a, b) == IF a >= b THEN a ELSE b

\* list.index(x): the 0-based index of the first occurrence of x.
IndexOf(s, x) == (CHOOSE i \in 1..Len(s) : s[i] = x /\ \A j \in 1..(i - 1) : s[j] # x) - 1

\* list.remove(x): delete the first occurrence of x.
ListRemove(s, x) ==
    LET i == IndexOf(s, x) + 1
    IN  SubSeq(s, 1, i - 1) \o SubSeq(s, i + 1, Len(s))

\* An insert that ignores the position and appends.
ListInsert_end(s, pos, x) == Append(s, x)

\* list.insert(pos, x): positions beyond the end append, negative positions
\* count from the end and stop at the front.
ListInsert(s, pos, x) ==
    LET p == IF pos < 0 THEN Max(0, Len(s) + pos) ELSE Min(pos, Len(s))
    IN  SubSeq(s, 1, p) \o <<x>> \o SubSeq(s, p + 1, Len(s))

\* The number of occurrences of x in s.
Occ(s, x) == Cardinality({i \in 1..Len(s) : s[i] = x})

NoDup(s) == \A i, j \in 1..Len(s) : s[i] = s[j] => i = j

\* ------------------------------------------------------------- outcomes
Outcome(op, res, uid, pos, by, skipped, notify) ==
    [op |-> op, res |-> res, uid |-> uid, pos |-> pos, by |-> by,
     skipped |-> skipped, notify |-> notify]

\* The frame of a takenext coroutine: where it is suspended, its locals
\* member and unready, the member it assigned (got) and the members it has
\* sent a notification to.  len0 is a history field: len(self.queue) when
\* the call began.
IdleTask ==
    [pc |-> "idle", author |-> 0, member |-> 0, unready |-> <<>>, got |-> 0,
     notify |-> <<>>, len0 |-> 0]

\* getvoicechan(member) as stored in the assignment: the member's voice
\* channel, or none.
VoiceChan(m) == IF m \in ready THEN "lounge" ELSE "none"

\* ------------------------------------------------------------ Queue.add
AddUid_dup(q, uid) == Append(q, uid)

AddUid_front(q, uid) == IF uid \in Range(q) THEN q ELSE <<uid>> \o q

AddUid(q, uid) == IF uid \in Range(q) THEN q ELSE Append(q, uid)

\* The number of members suspended takenext call c holds outside the queue.
\* Enqueue appends while queue and held members together are within MaxQueue
\* (a held member that queues again is in the queue twice once it is placed
\* back, so the queue could grow without end).
Held(c) ==
    IF tasks[c].pc \in {"fetch", "dm"} THEN Len(tasks[c].unready) + 1
    ELSE IF tasks[c].pc = "send" THEN Len(tasks[c].unready)
    ELSE 0

Enqueue(uid) ==
    /\ uid \in Range(queue) \/ Len(queue) + Held(1) + Held(2) <= MaxQueue
    /\ queue' = AddUid(queue, uid)
    /\ out' = IF uid \in Range(queue)
              THEN Outcome("enqueue", "AlreadyQueued", uid, IndexOf(queue, uid), 0, <<>>, <<>>)
              ELSE Outcome("enqueue", "Added", uid, Len(queue'), 0, <<>>, <<>>)
    /\ taken' = taken \ {uid}
    /\ UNCHANGED <<assigned, ready, tasks, disk>>
    /\ UNCHANGED regvars

\* --------------------------------------------------------- Queue.remove
\* A remove that drops the head of the queue when the id is not listed.
RemoveUid_head(q, uid) ==
    IF uid \in Range(q) THEN ListRemove(q, uid)
    ELSE IF q = <<>> THEN q ELSE Tail(q)

\* self.queue.remove(uid), the ValueError of an id not listed caught.
RemoveUid(q, uid) == IF uid \in Range(q) THEN ListRemove(q, uid) ELSE q

Remove(uid) ==
    /\ queue' = RemoveUid(queue, uid)
    /\ out' = IF uid \in Range(queue)
              THEN Outcome("remove", "Removed", uid, 0, 0, <<>>, <<>>)
              ELSE Outcome("remove", "NotFound", uid, 0, 0, <<>>, <<>>)
    /\ UNCHANGED <<assigned, ready, taken, tasks, disk>>
    /\ UNCHANGED regvars

\* ------------------------------------------------- ReviewQueue.takenext
\* self.queue.pop(0): what is left of the queue.
Pop_peek(q) == q

Pop_rotate(q) == Append(Tail(q), Head(q))

Pop(q) == Tail(q)

\* The placement of the unready members after the loop.
Reinsert_back(q, unready) == q \o unready

Reinsert_twice(q, unready) == q \o unready \o unready

Reinsert(q, unready) ==
    IF Len(q) <= Len(unready)
    THEN q \o unready
    ELSE LET insertPos == Min(Len(q) \div 2, InsertCap)
         IN  SubSeq(q, 1, insertPos) \o unready \o SubSeq(q, insertPos + 1, Len(q))

\* The members that are told their turn is near: queue[0], queue[1], queue[4].
Notified(q) ==
    (IF Len(q) > 0 THEN <<q[1]>> ELSE <<>>)
    \o (IF Len(q) > 1 THEN <<q[2]>> ELSE <<>>)
    \o (IF Len(q) > 5 THEN <<q[5]>> ELSE <<>>)

\* The loop of takenext with its test dropped: the first member popped is
\* kept whether ready or not.
SkipLoop_first(q, member, unready) ==
    [queue |-> q, member |-> member, unready |-> unready]

\* The while loop run without another command in between: q is the queue
\* after the pop of member, unready the members passed over so far.
RECURSIVE SkipLoop(_, _, _)
SkipLoop(q, member, unready) ==
    IF q # <<>> /\ member \notin ready
    THEN SkipLoop(Pop(q), Head(q), Append(unready, member))
    ELSE [queue |-> q, member |-> member, unready |-> unready]

Assign(a, by, uid) ==
    [r \in (DOMAIN a) \cup {by} |-> IF r = by THEN <<uid, QID, VoiceChan(uid)>> ELSE a[r]]

TakeNext(by, cv) ==
    /\ \A c \in Calls : tasks[c].pc = "idle"
    /\ IF ~cv
       THEN /\ out' = Outcome("takenext", "NoVoice", 0, 0, by, <<>>, <<>>)
            /\ UNCHANGED <<queue, assigned, taken>>
       ELSE IF queue = <<>>
       THEN /\ out' = Outcome("takenext", "Empty", 0, 0, by, <<>>, <<>>)
            /\ UNCHANGED <<queue, assigned, taken>>
       ELSE LET s == SkipLoop(Pop(queue), Head(queue), <<>>)
            IN  /\ queue' = Reinsert(s.queue, s.unready)
                /\ assigned' = Assign(assigned, by, s.member)
                /\ taken' = taken \cup {s.member}
                /\ out' = Outcome("takenext", "Assigned", s.member, 0, by,
                                  s.unready, Notified(queue'))
    /\ UNCHANGED <<ready, tasks, disk>>
    /\ UNCHANGED regvars

\* -------------------------------------------------- ReviewQueue.putback
PutBack(by, pos) ==
    /\ IF by \notin DOMAIN assigned
       THEN /\ out' = Outcome("putback", "NoAssignment", 0, pos, by, <<>>, <<>>)
            /\ UNCHANGED queue
       ELSE /\ Len(queue) < MaxQueue
            /\ queue' = ListInsert(queue, pos, assigned[by][1])
            /\ out' = Outcome("putback", "PutBack", assigned[by][1], pos, by, <<>>, <<>>)
    /\ UNCHANGED <<assigned, ready, taken, tasks, disk>>
    /\ UNCHANGED regvars

\* ------------------------------------------------------ the environment
\* A member joins or leaves a voice lounge (or starts or stops streaming).
VoiceChange(uid) ==
    /\ ready' = IF uid \in ready THEN ready \ {uid} ELSE ready \cup {uid}
    /\ out' = Outcome("voice", "Changed", uid, 0, 0, <<>>, <<>>)
    /\ UNCHANGED <<queue, assigned, taken, tasks, disk>>
    /\ UNCHANGED regvars

\* ------------------------------ ReviewQueue.takenext, await by await
\* takenext as the event loop runs it: each action is the code between two
\* awaits of call c, and other commands run while the call is suspended.

Step(res, t) == Outcome("takenext", res, t.member, 0, t.author, t.unready, t.notify)

\* From the command to the first fetch_member: the two early returns, or the
\* first pop.
TakeNextCall(c, cv) ==
    /\ tasks[c].pc = "idle"
    /\ IF ~cv
       THEN /\ out' = Outcome("takenext", "NoVoice", 0, 0, Caller(c), <<>>, <<>>)
            /\ UNCHANGED <<queue, tasks>>
       ELSE IF queue = <<>>
       THEN /\ out' = Outcome("takenext", "Empty", 0, 0, Caller(c), <<>>, <<>>)
            /\ UNCHANGED <<queue, tasks>>
       ELSE /\ queue' = Pop(queue)
            /\ tasks' = [tasks EXCEPT ![c] =
                            [IdleTask EXCEPT !.pc = "fetch", !.author = Caller(c),
                                             !.member = Head(queue),
                                             !.len0 = Len(queue)]]
            /\ out' = Step("Await", tasks'[c])
    /\ UNCHANGED <<assigned, ready, taken, disk>>
    /\ UNCHANGED regvars

\* After a fetch_member: the loop test, and either the dm to the unready
\* member or the placement of unready, the assignment and member.edit.
TakeNextLoop(c) ==
    LET t == tasks[c]
    IN  /\ t.pc = "fetch"
        /\ IF queue # <<>> /\ t.member \notin ready
           THEN /\ tasks' = [tasks EXCEPT ![c].pc = "dm"]
                /\ out' = Step("Await", tasks'[c])
                /\ UNCHANGED <<queue, assigned, taken>>
           ELSE /\ queue' = Reinsert(queue, t.unready)
                /\ assigned' = Assign(assigned, t.author, t.member)
                /\ taken' = taken \cup {t.member}
                /\ tasks' = [tasks EXCEPT ![c].pc = "edit", ![c].got = t.member]
                /\ out' = Step("Assigned", tasks'[c])
        /\ UNCHANGED <<ready, disk>>
        /\ UNCHANGED regvars

\* After the dm: the member is kept in unready and the next one is popped,
\* or, the queue being empty by now, the call reports that no one is ready.
TakeNextSkip(c) ==
    LET t == tasks[c]
    IN  /\ t.pc = "dm"
        /\ IF queue # <<>>
           THEN /\ queue' = Pop(queue)
                /\ tasks' = [tasks EXCEPT ![c].pc = "fetch",
                                          ![c].unready = Append(t.unready, t.member),
                                          ![c].member = Head(queue)]
           ELSE /\ tasks' = [tasks EXCEPT ![c].pc = "send",
                                          ![c].unready = Append(t.unready, t.member)]
                /\ UNCHANGED queue
        /\ out' = Step("Await", tasks'[c])
        /\ UNCHANGED <<assigned, ready, taken, disk>>
        /\ UNCHANGED regvars

\* After the send of the no-one-is-ready message.
TakeNextNoneReady(c) ==
    LET t == tasks[c]
    IN  /\ t.pc = "send"
        /\ queue' = t.unready
        /\ tasks' = [tasks EXCEPT ![c] = IdleTask]
        /\ out' = Step("NoneReady", t)
        /\ UNCHANGED <<assigned, ready, taken, disk>>
        /\ UNCHANGED regvars

\* After member.edit and after each notification: the next member to notify
\* is read from the queue as it is by then.
TakeNextNotify(c) ==
    LET t == tasks[c]
        target == IF t.pc = "edit" /\ Len(queue) > 0 THEN <<"n0", queue[1]>>
                  ELSE IF t.pc = "n0" /\ Len(queue) > 1 THEN <<"n1", queue[2]>>
                  ELSE IF t.pc \in {"n0", "n1"} /\ Len(queue) > 5 THEN <<"n4", queue[5]>>
                  ELSE <<"idle", 0>>
    IN  /\ t.pc \in {"edit", "n0", "n1", "n4"}
        /\ IF target[1] = "idle"
           THEN /\ tasks' = [tasks EXCEPT ![c] = [IdleTask EXCEPT !.got = t.got]]
                /\ out' = Outcome("takenext", "Done", t.got, 0, t.author, t.unready, t.notify)
           ELSE /\ tasks' = [tasks EXCEPT ![c].pc = target[1], ![c].member = target[2],
                                          ![c].notify = Append(t.notify, target[2])]
                /\ out' = Step("Await", tasks'[c])
        /\ UNCHANGED <<queue, assigned, ready, taken, disk>>
        /\ UNCHANGED regvars

\* ----------------------------------------------------------- Queue.save
ToFile(q) == q

Save ==
    /\ disk' = [qtype |-> "Review", qdata |-> ToFile(queue)]
    /\ out' = Outcome("save", "Saved", 0, 0, 0, <<>>, <<>>)
    /\ UNCHANGED <<queue, assigned, ready, taken, tasks>>
    /\ UNCHANGED regvars

\* ------------------------------------------------------- Queue.queues
\* The frame of an amend coroutine: where it is suspended and its locals.
IdleAmend ==
    [pc |-> "idle", qid |-> <<>>, idx |-> 0, by |-> 0, amendment |-> <<>>,
     msg |-> [sent |-> FALSE, live |-> FALSE, content |-> <<>>, mentions |-> <<>>]]

\* The frame of an ask or answer coroutine of a Question queue: where it is
\* suspended, its arguments, the index it rendered in the title of its
\* message (idx) and its local qstn.
IdleCall ==
    [pc |-> "idle", qid |-> <<>>, by |-> 0, idx |-> 0, text |-> <<>>,
     qstn |-> [idx |-> 0, qmsg |-> <<>>,
               disc_msg |-> [sent |-> FALSE, live |-> FALSE, content |-> <<>>,
                             mentions |-> <<>>],
               followers |-> <<>>, askedby |-> 0]]

\* The channels (guild id, channel id) and the qtype tags of the Queue
\* subclasses; "Poll" is a tag no subclass has.
Keys == {QID, <<1, 2>>}
Kinds == {"Review", "Question"}
KindArgs == Kinds \cup {"Poll"}

\* A text is the sequence of its parts; a part is a word, a mention of a
\* member, or a literal such as the marker that amend searches for.
Seg(kind, uid, text) == [kind |-> kind, uid |-> uid, text |-> text]
Word(w) == Seg("word", 0, w)
Lit(s) == Seg("lit", 0, s)
Mention(uid) == Seg("mention", uid, "")
Marker == Lit("**Answered by: **")

\* The questions asked, the answers given (the empty one asks for a voice
\* answer) and the amendments, one of which quotes the marker.
Questions == {<<Word("q1")>>, <<Word("q2")>>}
Answers == {<<Word("a1")>>, <<>>}
Amendments == {<<Word("m1")>>, <<Word("m2"), Marker>>}

\* The highest question index asked for.
MaxAsk == 2

\* The members that ask, follow and amend.
Members == {1, 2}

\* The outcome of a registry or Question queue command.
Result(op, res, qid, uid, idx, info) ==
    [op |-> op, res |-> res, qid |-> qid, uid |-> uid, idx |-> idx, info |-> info]

\* ReviewQueue.__init__ and QuestionQueue.__init__.
NewQueue(qid, qtype, guildname, channame) ==
    IF qtype = "Review"
    THEN [qid |-> qid, qtype |-> qtype, guildname |-> guildname, channame |-> channame,
          queue |-> <<>>, assigned |-> <<>>]
    ELSE [qid |-> qid, qtype |-> qtype, guildname |-> guildname, channame |-> channame,
          queue |-> <<>>, answers |-> <<>>, maxidx |-> 0]

\* d[k] = v on a dict given as a function.
DictPut(d, k, v) == [x \in (DOMAIN d) \cup {k} |-> IF x = k THEN v ELSE d[x]]

\* Queue.makequeue: the registry it leaves.
MakeQueueReg_replace(qs, qid, qtype, guildname, channame) ==
    DictPut(qs, qid, NewQueue(qid, qtype, guildname, channame))

MakeQueueReg(qs, qid, qtype, guildname, channame) ==
    IF qid \in DOMAIN qs THEN qs
    ELSE DictPut(qs, qid, NewQueue(qid, qtype, guildname, channame))

\* The makequeue command: next() over the subclasses raises StopIteration for
\* a tag no subclass has.
MakeQueue(qid, qtype) ==
    /\ IF qid \notin DOMAIN queues /\ qtype \notin Kinds
       THEN /\ out' = Result("makequeue", "Raised", qid, 0, 0, qtype)
            /\ UNCHANGED queues
       ELSE /\ queues' = MakeQueueReg(queues, qid, qtype, qid[1], qid[2])
            /\ out' = Result("makequeue",
                             IF qid \in DOMAIN queues THEN "AlreadyExists" ELSE "Created",
                             qid, 0, 0, qtype)
    /\ UNCHANGED <<files, snap, amends, qcalls>>
    /\ UNCHANGED revvars

\* Queue.qcheck: the channel has a queue, of the type the command is for.
QCheck(qid, qtype) == qid \in DOMAIN queues /\ queues[qid].qtype = qtype

\* The queueme command on the Review queue of channel qid.
QueueMe(qid, uid) ==
    /\ QCheck(qid, "Review")
    /\ queues' = [queues EXCEPT ![qid].queue = AddUid(@, uid)]
    /\ out' = IF uid \in Range(queues[qid].queue)
              THEN Result("queueme", "AlreadyQueued", qid, uid, 0, IndexOf(queues[qid].queue, uid))
              ELSE Result("queueme", "Added", qid, uid, 0, Len(queues'[qid].queue))
    /\ UNCHANGED <<files, snap, amends, qcalls>>
    /\ UNCHANGED revvars


\* -------------------------------------------------------- QuestionQueue
\* QuestionQueue.queue is an OrderedDict: here the sequence of its values in
\* key order of insertion, each value a Question with its key idx.  askedby is
\* the constructor argument of the Question, kept as a history field.
Question(idx, askedby, qmsg, disc_msg) ==
    [idx |-> idx, qmsg |-> qmsg, disc_msg |-> disc_msg, followers |-> <<askedby>>,
     askedby |-> askedby]

LedgerKeys(l) == {l[i].idx : i \in 1..Len(l)}

\* self.queue.get(idx)
LedgerGet(l, idx) == l[CHOOSE i \in 1..Len(l) : l[i].idx = idx]

\* self.queue[idx] = question: a key the dict has keeps its place.
LedgerPut(l, q) ==
    IF q.idx \in LedgerKeys(l)
    THEN [i \in 1..Len(l) |-> IF l[i].idx = q.idx THEN q ELSE l[i]]
    ELSE Append(l, q)

\* self.queue.pop(idx): what is left of the dict.
LedgerPop(l, idx) == SelectSeq(l, LAMBDA q : q.idx # idx)

\* A message of the bot: its embed description, and the members its text
\* mentions.
\* live: the channel still shows it.
Message(content, mentions) ==
    [sent |-> TRUE, live |-> TRUE, content |-> content, mentions |-> mentions]

\* disc_msg=None
NoMessage == [sent |-> FALSE, live |-> FALSE, content |-> <<>>, mentions |-> <<>>]

\* The index of the question that add stores.
NewIndex_len(q) == Len(q.queue) + 1

NewIndex(q) == q.maxidx + 1

\* self.maxidx after add: the increment comes after the return of the
\* rejected question.
AddIndex_first(q, qmsg) == NewIndex(q)

AddIndex(q, qmsg) == IF qmsg = <<>> THEN q.maxidx ELSE NewIndex(q)

\* QuestionQueue.add, from the ask command.
Ask(qid, askedby, qmsg) ==
    LET q == queues[qid]
        idx == NewIndex(q)
        disc_msg == Message(<<Lit("**Question:**")>> \o qmsg
                                \o <<Lit("**Asked by:**"), Mention(askedby)>>, <<>>)
    IN  /\ QCheck(qid, "Question")
        /\ qmsg # <<>> => q.maxidx < MaxAsk
        /\ IF qmsg = <<>>
           THEN /\ out' = Result("ask", "EmptyQuestion", qid, askedby, 0, <<>>)
                /\ queues' = [queues EXCEPT ![qid].maxidx = AddIndex(q, qmsg)]
           ELSE /\ queues' = [queues EXCEPT
                                 ![qid].maxidx = AddIndex(q, qmsg),
                                 ![qid].queue = LedgerPut(@, Question(idx, askedby, qmsg, disc_msg))]
                /\ out' = Result("ask", "Asked", qid, askedby, idx, Len(queues'[qid].queue))
        /\ UNCHANGED <<files, snap, amends, qcalls>>
        /\ UNCHANGED revvars

\* A blank in the text of a command.
Space == Lit(" ")

\* re_ask.match(content).groups()[0]: the text behind the command word and
\* the blanks that follow it (content is the text behind the command word).
RECURSIVE ReAsk(_)
ReAsk(content) ==
    IF content # <<>> /\ Head(content) = Space THEN ReAsk(Tail(content)) ELSE content

\* The ask command.
AskCommand(qid, askedby, content) == Ask(qid, askedby, ReAsk(content))

\* question.followers.append(member) for a member that does not follow yet.
AddFollower_again(followers, member) == Append(followers, member)

AddFollower_front(followers, member) ==
    IF member \in Range(followers) THEN followers ELSE <<member>> \o followers

AddFollower(followers, member) ==
    IF member \in Range(followers) THEN followers ELSE Append(followers, member)

\* QuestionQueue.follow; idx = 0 stands for no index given.
Follow(qid, member, idx) ==
    LET q == queues[qid]
    IN  /\ QCheck(qid, "Question")
        /\ IF q.queue = <<>>
           THEN /\ out' = Result("follow", "NoQuestions", qid, member, idx, <<>>)
                /\ UNCHANGED queues
           ELSE IF idx = 0
           THEN /\ out' = Result("follow", "Listing", qid, member, idx,
                                 [i \in 1..Len(q.queue) |->
                                     <<q.queue[i].idx, member \in Range(q.queue[i].followers)>>])
                /\ UNCHANGED queues
           ELSE IF idx \notin LedgerKeys(q.queue)
           THEN /\ out' = Result("follow", "NotFound", qid, member, idx, <<>>)
                /\ UNCHANGED queues
           ELSE LET question == LedgerGet(q.queue, idx)
                IN  /\ queues' = [queues EXCEPT ![qid].queue =
                                     LedgerPut(@, [question EXCEPT !.followers =
                                                      AddFollower(@, member)])]
                    /\ out' = Result("follow",
                                     IF member \in Range(question.followers)
                                     THEN "AlreadyFollowing" ELSE "NowFollowing",
                                     qid, member, idx, <<>>)
        /\ UNCHANGED <<files, snap, amends, qcalls>>
        /\ UNCHANGED revvars

\* The embed description of the answer message.
AnswerContent(qstn, by, answer) ==
    <<Lit("**Question:**")>> \o qstn.qmsg
        \o (IF answer # <<>> THEN <<Lit("**Answer:**")>> \o answer
            ELSE <<Lit("will be answered in voice channel"), Seg("channel", 0, "lounge")>>)
        \o <<Marker, Mention(by)>>

\* The queue object after the question is moved to the answers.
MoveToAnswers_keep(q, idx, disc_msg) ==
    [q EXCEPT !.answers = DictPut(@, idx, [LedgerGet(q.queue, idx) EXCEPT !.disc_msg = disc_msg])]

MoveToAnswers(q, idx, disc_msg) ==
    [q EXCEPT !.queue = LedgerPop(@, idx),
              !.answers = DictPut(@, idx, [LedgerGet(q.queue, idx) EXCEPT !.disc_msg = disc_msg])]

\* QuestionQueue.answer; cv: the answerer is in a voice channel.
Answer(qid, by, idx, answer, cv) ==
    LET q == queues[qid]
    IN  /\ QCheck(qid, "Question")
        /\ IF idx \notin LedgerKeys(q.queue)
           THEN /\ out' = Result("answer", "NotFound", qid, by, idx, <<>>)
                /\ UNCHANGED queues
           ELSE IF answer = <<>> /\ ~cv
           THEN /\ out' = Result("answer", "NoLocation", qid, by, idx, <<>>)
                /\ UNCHANGED queues
           ELSE LET qstn == LedgerGet(q.queue, idx)
                    disc_msg == Message(AnswerContent(qstn, by, answer), qstn.followers)
                IN  /\ queues' = [queues EXCEPT ![qid] = MoveToAnswers(q, idx, disc_msg)]
                    /\ out' = Result("answer",
                                     IF answer # <<>> THEN "AnsweredByText" ELSE "AnsweredByVoice",
                                     qid, by, idx,
                                     <<answer # <<>> /\ qstn.followers[1] = by>>)
        /\ UNCHANGED <<files, snap, amends, qcalls>>
        /\ UNCHANGED revvars

\* QuestionQueue.add up to the await of ctx.send(embed=embed): maxidx is
\* counted up and the message is rendered with the index in its title.
AskCall(c, qid, askedby, qmsg) ==
    LET q == queues[qid]
    IN  /\ QCheck(qid, "Question")
        /\ qcalls[c].pc = "idle"
        /\ qmsg # <<>> => q.maxidx < MaxAsk
        /\ IF qmsg = <<>>
           THEN /\ out' = Result("ask", "EmptyQuestion", qid, askedby, 0, <<c>>)
                /\ UNCHANGED <<queues, qcalls>>
           ELSE /\ queues' = [queues EXCEPT ![qid].maxidx = AddIndex(q, qmsg)]
                /\ qcalls' = [qcalls EXCEPT ![c] =
                                 [IdleCall EXCEPT !.pc = "render", !.qid = qid,
                                                  !.by = askedby, !.text = qmsg,
                                                  !.idx = queues'[qid].maxidx]]
                /\ out' = Result("ask", "Called", qid, askedby, queues'[qid].maxidx, <<c>>)
        /\ UNCHANGED <<files, snap, amends>>
        /\ UNCHANGED revvars

\* The rest of add: the message is sent and the question is stored under
\* self.maxidx as it is now.  info: the call, the index in the title of the
\* message, and the position reported.
AskStore(c) ==
    LET f == qcalls[c]
        q == queues[f.qid]
        disc_msg == Message(<<Lit("**Question:**")>> \o f.text
                                \o <<Lit("**Asked by:**"), Mention(f.by)>>, <<>>)
    IN  /\ f.pc = "render"
        /\ queues' = [queues EXCEPT ![f.qid].queue =
                         LedgerPut(@, Question(q.maxidx, f.by, f.text, disc_msg))]
        /\ qcalls' = [qcalls EXCEPT ![c] = IdleCall]
        /\ out' = Result("ask", "Asked", f.qid, f.by, q.maxidx,
                         <<c, f.idx, Len(queues'[f.qid].queue)>>)
        /\ UNCHANGED <<files, snap, amends>>
        /\ UNCHANGED revvars

\* QuestionQueue.answer up to its first await: the tests, and the pop of
\* the question into the local qstn.
AnswerCall(c, qid, by, idx, answer, cv) ==
    LET q == queues[qid]
    IN  /\ QCheck(qid, "Question")
        /\ qcalls[c].pc = "idle"
        /\ IF idx \notin LedgerKeys(q.queue)
           THEN /\ out' = Result("answer", "NotFound", qid, by, idx, <<c>>)
                /\ UNCHANGED <<queues, qcalls>>
           ELSE IF answer = <<>> /\ ~cv
           THEN /\ out' = Result("answer", "NoLocation", qid, by, idx, <<c>>)
                /\ UNCHANGED <<queues, qcalls>>
           ELSE LET qstn == LedgerGet(q.queue, idx)
                IN  /\ queues' = [queues EXCEPT ![qid].queue = LedgerPop(@, idx)]
                    /\ qcalls' = [qcalls EXCEPT ![c] =
                                     [pc |-> IF qstn.disc_msg.sent THEN "delete" ELSE "send",
                                      qid |-> qid, by |-> by, idx |-> idx, text |-> answer,
                                      qstn |-> qstn]]
                    /\ out' = Result("answer", "Called", qid, by, idx, <<c>>)
        /\ UNCHANGED <<files, snap, amends>>
        /\ UNCHANGED revvars

\* qstn.disc_msg.delete() returns.
AnswerDelete(c) ==
    LET f == qcalls[c]
    IN  /\ f.pc = "delete"
        /\ qcalls' = [qcalls EXCEPT ![c].pc = "send",
                                    ![c].qstn.disc_msg.live = FALSE]
        /\ out' = Result("answer", "Deleted", f.qid, f.by, f.idx, <<c>>)
        /\ UNCHANGED <<queues, files, snap, amends>>
        /\ UNCHANGED revvars

\* The rest of answer: the answer message is sent and the question is
\* stored among the answers.
AnswerSend(c) ==
    LET f == qcalls[c]
        disc_msg == Message(AnswerContent(f.qstn, f.by, f.text), f.qstn.followers)
    IN  /\ f.pc = "send"
        /\ queues' = [queues EXCEPT ![f.qid].answers =
                         DictPut(@, f.idx, [f.qstn EXCEPT !.disc_msg = disc_msg])]
        /\ qcalls' = [qcalls EXCEPT ![c] = IdleCall]
        /\ out' = Result("answer",
                         IF f.text # <<>> THEN "AnsweredByText" ELSE "AnsweredByVoice",
                         f.qid, f.by, f.idx, <<c, f.text # <<>> /\ f.qstn.followers[1] = f.by>>)
        /\ UNCHANGED <<files, snap, amends>>
        /\ UNCHANGED revvars
\* content.find(sub): the place of the first sub in content, counted from 0,
\* and -1 when content holds none.
Find(content, sub) ==
    IF \E i \in 1..Len(content) : content[i] = sub
    THEN (CHOOSE i \in 1..Len(content) :
              content[i] = sub /\ \A j \in 1..(i - 1) : content[j] # sub) - 1
    ELSE -1

\* content[:inspos] + text + content[inspos:], a negative inspos counting
\* from the end.
Splice(content, inspos, text) ==
    LET at == IF inspos < 0 THEN Max(0, Len(content) + inspos) ELSE Min(inspos, Len(content))
    IN  SubSeq(content, 1, at) \o text \o SubSeq(content, at + 1, Len(content))

\* The text that amend inserts.
AmendText(by, amendment) == <<Lit("**Amendment from"), Mention(by)>> \o amendment

AmendCount(content) ==
    Cardinality({i \in 1..Len(content) : content[i] = Lit("**Amendment from")})

\* The most amendments made to one answer.
MaxAmend == Cardinality(Amendments)

\* QuestionQueue.amend, run without another amend in between.
Amend(qid, by, idx, amendment) ==
    LET q == queues[qid]
    IN  /\ QCheck(qid, "Question")
        /\ \A c \in Calls : amends[c].pc = "idle"
        /\ IF idx \notin DOMAIN q.answers
           THEN /\ out' = Result("amend", "NotFound", qid, by, idx, <<>>)
                /\ UNCHANGED queues
           ELSE LET qstn == q.answers[idx]
                    content == qstn.disc_msg.content
                    newcontent == Splice(content, Find(content, Marker), AmendText(by, amendment))
                IN  /\ AmendCount(content) < MaxAmend
                    /\ queues' = [queues EXCEPT ![qid].answers[idx].disc_msg =
                                     Message(newcontent, qstn.followers)]
                    /\ out' = Result("amend", "Amended", qid, by, idx, <<>>)
        /\ UNCHANGED <<files, snap, amends, qcalls>>
        /\ UNCHANGED revvars

\* QuestionQueue.amend up to its first await, msg.delete(): the frame keeps
\* msg, the message it read its content from.
AmendCall(c, qid, by, idx, amendment) ==
    LET q == queues[qid]
    IN  /\ QCheck(qid, "Question")
        /\ amends[c].pc = "idle"
        /\ IF idx \notin DOMAIN q.answers
           THEN /\ out' = Result("amend", "NotFound", qid, by, idx, <<c>>)
                /\ UNCHANGED amends
           ELSE /\ AmendCount(q.answers[idx].disc_msg.content) < MaxAmend
                /\ amends' = [amends EXCEPT ![c] =
                                 [pc |-> "delete", qid |-> qid, idx |-> idx, by |-> by,
                                  amendment |-> amendment, msg |-> q.answers[idx].disc_msg]]
                /\ out' = Result("amend", "Called", qid, by, idx, <<c>>)
        /\ UNCHANGED <<queues, files, snap, qcalls>>
        /\ UNCHANGED revvars

\* msg.delete() returns.  For a message that is no longer shown, because
\* another amend deleted it, the call raises or returns, as the channel has it.
AmendDelete(c) ==
    LET f == amends[c]
        cur == queues[f.qid].answers[f.idx].disc_msg
    IN  /\ f.pc = "delete"
        /\ IF cur = f.msg /\ cur.live
           THEN /\ queues' = [queues EXCEPT ![f.qid].answers[f.idx].disc_msg.live = FALSE]
                /\ amends' = [amends EXCEPT ![c].pc = "send"]
                /\ out' = Result("amend", "Deleted", f.qid, f.by, f.idx, <<c>>)
           ELSE \/ /\ amends' = [amends EXCEPT ![c] = IdleAmend]
                   /\ out' = Result("amend", "Raised", f.qid, f.by, f.idx, <<c>>)
                   /\ UNCHANGED queues
                \/ /\ amends' = [amends EXCEPT ![c].pc = "send"]
                   /\ out' = Result("amend", "Deleted", f.qid, f.by, f.idx, <<c>>)
                   /\ UNCHANGED queues
        /\ UNCHANGED <<files, snap, qcalls>>
        /\ UNCHANGED revvars

\* The rest of amend: the new message is sent and stored.
AmendSend(c) ==
    LET f == amends[c]
        qstn == queues[f.qid].answers[f.idx]
        content == f.msg.content
        newcontent == Splice(content, Find(content, Marker), AmendText(f.by, f.amendment))
    IN  /\ f.pc = "send"
        /\ queues' = [queues EXCEPT ![f.qid].answers[f.idx].disc_msg =
                         Message(newcontent, qstn.followers)]
        /\ amends' = [amends EXCEPT ![c] = IdleAmend]
        /\ out' = Result("amend", "Amended", f.qid, f.by, f.idx, <<c>>)
        /\ UNCHANGED <<files, snap, qcalls>>
        /\ UNCHANGED revvars

\* QuestionQueue.whereis: per followed question whether it is the member's
\* own, its index and its position.
WhereIsList_first(l, uid) ==
    [i \in 1..Len(SelectSeq(l, LAMBDA q : uid \in Range(q.followers))) |->
        LET q == SelectSeq(l, LAMBDA x : uid \in Range(x.followers))[i]
        IN  [own |-> q.followers[1] = uid, idx |-> q.idx, pos |-> 0]]

WhereIsList(l, uid) ==
    LET at == SelectSeq([i \in 1..Len(l) |-> i], LAMBDA i : uid \in Range(l[i].followers))
    IN  [k \in 1..Len(at) |->
            [own |-> l[at[k]].followers[1] = uid, idx |-> l[at[k]].idx, pos |-> at[k] - 1]]

\* The whereami command in the channel of a Question queue.
WhereIs(qid, uid) ==
    /\ QCheck(qid, "Question")
    /\ out' = LET qlst == WhereIsList(queues[qid].queue, uid)
              IN  Result("whereis", IF qlst = <<>> THEN "NotFollowing" ELSE "Following",
                         qid, uid, 0, qlst)
    /\ UNCHANGED regvars
    /\ UNCHANGED revvars

\* ---------------------------------------------------------- persistence
\* The name of the file of a queue, f'{qid[0]}-{qid[1]}.json', and the qid
\* that loadall reads back from the name.
Fname(qid) == <<qid[1], "-", qid[2], ".json">>

QidOf(fname) == <<fname[1], fname[3]>>

\* QuestionQueue.tofile
ToFileQ_askers(l) == [i \in 1..Len(l) |-> <<l[i].qmsg, <<l[i].followers[1]>>>>]

ToFileQ(l) == [i \in 1..Len(l) |-> <<l[i].qmsg, l[i].followers>>]

\* The dict that save writes.
QJson(q) ==
    [qtype |-> q.qtype, guildname |-> q.guildname, channame |-> q.channame,
     qdata |-> IF q.qtype = "Review" THEN ToFile(q.queue) ELSE ToFileQ(q.queue)]

\* What a queue object holds for its members when it is saved: the waiting
\* list, and the open questions with their followers.
Snapshot(q) ==
    [qtype |-> q.qtype,
     waiting |-> IF q.qtype = "Review" THEN q.queue ELSE <<>>,
     open |-> IF q.qtype = "Question"
              THEN [i \in 1..Len(q.queue) |->
                       [idx |-> q.queue[i].idx, qmsg |-> q.queue[i].qmsg,
                        followers |-> q.queue[i].followers]]
              ELSE <<>>]

\* The savequeue command.  snap keeps what each file was written from.
SaveQueue(qid) ==
    /\ qid \in DOMAIN queues
    /\ \A c \in Calls : amends[c].pc = "idle"
    /\ files' = DictPut(files, Fname(qid), QJson(queues[qid]))
    /\ snap' = DictPut(snap, qid, Snapshot(queues[qid]))
    /\ out' = Result("savequeue", "Saved", qid, 0, 0, <<>>)
    /\ UNCHANGED <<queues, amends, qcalls>>
    /\ UNCHANGED revvars

\* The files after Queue.saveall.
SaveAllFiles(fs, qs) ==
    [f \in (DOMAIN fs) \cup {Fname(k) : k \in DOMAIN qs} |->
        IF QidOf(f) \in DOMAIN qs THEN QJson(qs[QidOf(f)]) ELSE fs[f]]

\* The process ends and starts again with no queue registered; unload: the
\* cog is unloaded first, which saves all queues.
Restart(unload) ==
    /\ DOMAIN queues # {}
    /\ \A c \in Calls : amends[c].pc = "idle"
    /\ queues' = <<>>
    /\ files' = IF unload THEN SaveAllFiles(files, queues) ELSE files
    /\ snap' = IF unload
               THEN [k \in (DOMAIN snap) \cup (DOMAIN queues) |->
                        IF k \in DOMAIN queues THEN Snapshot(queues[k]) ELSE snap[k]]
               ELSE snap
    /\ out' = Result("restart", IF unload THEN "Unloaded" ELSE "Killed", <<>>, 0, 0, <<>>)
    /\ UNCHANGED <<amends, qcalls>>
    /\ UNCHANGED revvars

\* Queue.fromfile
FromFile_rev(qdata) == [i \in 1..Len(qdata) |-> qdata[Len(qdata) + 1 - i]]

FromFile(qdata) == qdata

\* QuestionQueue.fromfile: the queue object after the loop has run over the
\* first n entries of qdata.
RECURSIVE FromFileQ(_, _, _)
FromFileQ(q, qdata, n) ==
    IF n = 0 THEN [q EXCEPT !.maxidx = 0]
    ELSE LET done == FromFileQ(q, qdata, n - 1)
             idx == (n - 1) + 1
             question == [Question(idx, 0, qdata[n][1], NoMessage) EXCEPT !.followers = qdata[n][2]]
         IN  [done EXCEPT !.queue = LedgerPut(@, question), !.maxidx = idx]

\* A Review queue that is registered would take the pairs of a Question
\* record for its waiting list; the model leaves that load out.
Loadable(qs, fs, qid) ==
    Fname(qid) \in DOMAIN fs /\ qid \in DOMAIN qs
        => ~(qs[qid].qtype = "Review" /\ fs[Fname(qid)].qtype = "Question"
             /\ fs[Fname(qid)].qdata # <<>>)

\* Queue.load: the registry it leaves and what becomes of the call.  Unpacking
\* a member id of a Review record as a pair raises a TypeError.
LoadReg(qs, fs, qid) ==
    IF Fname(qid) \notin DOMAIN fs THEN [queues |-> qs, res |-> "NoSavedQueue"]
    ELSE LET qjson == fs[Fname(qid)]
             made == MakeQueueReg(qs, qid, qjson.qtype, qjson.guildname, qjson.channame)
         IN  IF made[qid].qtype = "Review"
             THEN [queues |-> [made EXCEPT ![qid].queue = FromFile(qjson.qdata)],
                   res |-> "Loaded"]
             ELSE IF qjson.qtype = "Review" /\ qjson.qdata # <<>>
             THEN [queues |-> made, res |-> "Raised"]
             ELSE [queues |-> [made EXCEPT ![qid] =
                                  FromFileQ(@, qjson.qdata, Len(qjson.qdata))],
                   res |-> "Loaded"]

\* The loadqueue command.
Load(qid) ==
    /\ Loadable(queues, files, qid)
    /\ \A c \in Calls : amends[c].pc = "idle"
    /\ queues' = LoadReg(queues, files, qid).queues
    /\ out' = Result("loadqueue", LoadReg(queues, files, qid).res, qid, 0, 0,
                     <<qid \in DOMAIN queues>>)
    /\ UNCHANGED <<files, snap, amends, qcalls>>
    /\ UNCHANGED revvars

\* Queue.loadall over the files in the order the directory lists them; a load
\* that raises ends the command.
RECURSIVE LoadSeq(_, _, _)
LoadSeq(qs, fs, order) ==
    IF order = <<>> THEN qs
    ELSE LET r == LoadReg(qs, fs, QidOf(Head(order)))
         IN  IF r.res = "Raised" THEN r.queues ELSE LoadSeq(r.queues, fs, Tail(order))

Listings(S) ==
    {o \in [1..Cardinality(S) -> S] : \A i, j \in 1..Cardinality(S) : o[i] = o[j] => i = j}

\* The loadallqueues command.
LoadAll ==
    /\ \A f \in DOMAIN files : Loadable(queues, files, QidOf(f))
    /\ \A c \in Calls : amends[c].pc = "idle"
    /\ \E order \in Listings(DOMAIN files) :
          /\ queues' = LoadSeq(queues, files, order)
          /\ out' = Result("loadallqueues", "Loaded", <<>>, 0, 0, DOMAIN queues)
    /\ UNCHANGED <<files, snap, amends, qcalls>>
    /\ UNCHANGED revvars

\* ------------------------------------------------------- specifications
Idle ==
    /\ assigned = <<>>
    /\ out = Outcome("init", "None", 0, 0, 0, <<>>, <<>>)
    /\ taken = {}
    /\ tasks = [c \in Calls |-> IdleTask]
    /\ disk = "none"
    /\ queues = <<>>
    /\ files = <<>>
    /\ snap = <<>>
    /\ amends = [c \in Calls |-> IdleAmend]
    /\ qcalls = [c \in Calls |-> IdleCall]

Init ==
    /\ queue = <<>>
    /\ ready = {}
    /\ Idle

\* The commands run one after the other, each to its end.
Next ==
    \/ \E uid \in Participants : Enqueue(uid)
    \/ \E uid \in Participants : Remove(uid)
    \/ \E by \in Staff, cv \in BOOLEAN : TakeNext(by, cv)
    \/ \E by \in Staff, pos \in PosArgs : PutBack(by, pos)
    \/ \E uid \in Participants : VoiceChange(uid)

Spec == Init /\ [][Next]_vars

\* Only queueme and removeme.
NextER ==
    \/ \E uid \in Participants : Enqueue(uid)
    \/ \E uid \in Participants : Remove(uid)
    \/ \E uid \in Participants : VoiceChange(uid)

SpecER == Init /\ [][NextER]_vars

\* takenext on queues 1, 2, ..., n of which the first k members are not ready.
InitFair ==
    /\ \E n \in 1..FairLen, k \in 0..FairLen :
          /\ k <= n
          /\ queue = [i \in 1..n |-> i]
          /\ ready = (k + 1)..n
    /\ Idle

NextFair == \E by \in Staff, cv \in BOOLEAN : TakeNext(by, cv)

SpecFair == InitFair /\ [][NextFair]_vars

\* The takenext calls as the event loop interleaves them.
TakeNextStep(c) ==
    \/ \E cv \in BOOLEAN : TakeNextCall(c, cv)
    \/ TakeNextLoop(c)
    \/ TakeNextSkip(c)
    \/ TakeNextNoneReady(c)
    \/ TakeNextNotify(c)

\* Two takenext calls on a queue without duplicates, and nothing else.
InitTwo ==
    /\ queue \in {q \in UNION {[1..n -> Participants] : n \in 0..NumPart} : NoDup(q)}
    /\ ready \in SUBSET Participants
    /\ Idle

NextTwo ==
    \/ \E c \in Calls : TakeNextStep(c)
    \/ \E uid \in Participants : VoiceChange(uid)

SpecTwo == InitTwo /\ [][NextTwo]_vars

\* One takenext call at a time on a queue without duplicates, with removeme
\* commands and voice changes at its awaits and no queueme.  Every await of
\* the call returns: the event loop resumes the coroutine.
NextTerm ==
    \/ TakeNextStep(1)
    \/ \E uid \in Participants : Remove(uid)
    \/ \E uid \in Participants : VoiceChange(uid)

SpecTerm == InitTwo /\ [][NextTerm]_vars /\ WF_vars(TakeNextStep(1))

\* One takenext call in flight, with queueme, removeme and savequeue running
\* while it is suspended.
NextAsync ==
    \/ TakeNextStep(1)
    \/ \E uid \in Participants : Enqueue(uid)
    \/ \E uid \in Participants : Remove(uid)
    \/ \E uid \in Participants : VoiceChange(uid)
    \/ Save

SpecAsync == Init /\ [][NextAsync]_vars

\* The registry and the files: queues are made, saved and loaded in two
\* channels, the members use the queue of the first, and the process restarts.
NextReg ==
    \/ \E qid \in Keys, qtype \in KindArgs : MakeQueue(qid, qtype)
    \/ \E uid \in Members : QueueMe(QID, uid)
    \/ Ask(QID, 1, <<Word("q1")>>)
    \/ Answer(QID, Caller(1), 1, <<Word("a1")>>, FALSE)
    \/ \E qid \in Keys : SaveQueue(qid)
    \/ \E qid \in Keys : Load(qid)
    \/ LoadAll
    \/ \E unload \in BOOLEAN : Restart(unload)

SpecReg == Init /\ [][NextReg]_vars

\* A queue of one channel over the restarts of the process: it is saved when
\* the cog is unloaded and loaded again while the channel has no queue.
NextRT ==
    \/ \E qtype \in Kinds : MakeQueue(QID, qtype)
    \/ \E uid \in Participants : QueueMe(QID, uid)
    \/ \E qmsg \in Questions : Ask(QID, 1, qmsg)
    \/ \E idx \in 1..MaxAsk : Follow(QID, 2, idx)
    \/ \E idx \in 1..MaxAsk : Answer(QID, Caller(1), idx, <<Word("a1")>>, FALSE)
    \/ Restart(TRUE)
    \/ QID \notin DOMAIN queues /\ Load(QID)

SpecRT == Init /\ [][NextRT]_vars

\* One Question queue, its commands run one after the other, each to its end;
\* an answer is amended once.
InitQ ==
    /\ queue = <<>>
    /\ ready = {}
    /\ assigned = <<>>
    /\ out = Outcome("init", "None", 0, 0, 0, <<>>, <<>>)
    /\ taken = {}
    /\ tasks = [c \in Calls |-> IdleTask]
    /\ disk = "none"
    /\ queues = MakeQueueReg(<<>>, QID, "Question", QID[1], QID[2])
    /\ files = <<>>
    /\ snap = <<>>
    /\ amends = [c \in Calls |-> IdleAmend]
    /\ qcalls = [c \in Calls |-> IdleCall]

NextQ ==
    \/ \E uid \in Members, content \in {<<Word("q1")>>, <<Space, Word("q1")>>, <<>>, <<Space>>} :
          AskCommand(QID, uid, content)
    \/ \E uid \in Members, idx \in 0..MaxAsk : Follow(QID, uid, idx)
    \/ \E idx \in 1..MaxAsk, answer \in Answers : Answer(QID, 1, idx, answer, answer = <<>>)
    \/ \E idx \in 1..MaxAsk : Answer(QID, 1, idx, <<>>, FALSE)
    \/ \E idx \in 1..MaxAsk :
          /\ idx \in DOMAIN queues[QID].answers
                 => AmendCount(queues[QID].answers[idx].disc_msg.content) = 0
          /\ Amend(QID, Caller(1), idx, <<Word("m1")>>)
    \/ \E uid \in Members : WhereIs(QID, uid)

SpecQ == InitQ /\ [][NextQ]_vars

\* The amend calls on one answered question as the event loop interleaves
\* them.
\* Two ask commands whose coroutines interleave at the await of add.
NextAsk ==
    \/ \E c \in Calls, uid \in Members, content \in Questions \cup {<<>>} :
          AskCall(c, QID, uid, ReAsk(content))
    \/ \E c \in Calls : AskStore(c)
    \/ \E uid \in Members, idx \in 1..MaxAsk : Follow(QID, uid, idx)

SpecAsk == InitQ /\ [][NextAsk]_vars

\* Questions asked one after the other, with answer commands whose
\* coroutines interleave at the awaits of answer, and follow and amend
\* commands in between.
NextAnswer ==
    \/ \E uid \in Members : Ask(QID, uid, <<Word("q1")>>)
    \/ \E c \in Calls, idx \in 1..MaxAsk, answer \in Answers :
          AnswerCall(c, QID, Caller(c), idx, answer, answer = <<>>)
    \/ \E c \in Calls, idx \in 1..MaxAsk : AnswerCall(c, QID, Caller(c), idx, <<>>, FALSE)
    \/ \E c \in Calls : AnswerDelete(c)
    \/ \E c \in Calls : AnswerSend(c)
    \/ \E uid \in Members, idx \in 1..MaxAsk : Follow(QID, uid, idx)

SpecAnswer == InitQ /\ [][NextAnswer]_vars
InitAmend ==
    /\ queue = <<>>
    /\ ready = {}
    /\ assigned = <<>>
    /\ out = Outcome("init", "None", 0, 0, 0, <<>>, <<>>)
    /\ taken = {}
    /\ tasks = [c \in Calls |-> IdleTask]
    /\ disk = "none"
    /\ \E qmsg \in Questions, answer \in Answers :
          LET made == MakeQueueReg(<<>>, QID, "Question", QID[1], QID[2])
              asked == [made[QID] EXCEPT !.maxidx = 1,
                                         !.queue = <<Question(1, 1, qmsg, NoMessage)>>]
              disc_msg == Message(AnswerContent(asked.queue[1], Caller(1), answer), <<1>>)
          IN  queues = [made EXCEPT ![QID] = MoveToAnswers(asked, 1, disc_msg)]
    /\ files = <<>>
    /\ snap = <<>>
    /\ amends = [c \in Calls |-> IdleAmend]
    /\ qcalls = [c \in Calls |-> IdleCall]

NextAmend ==
    \/ \E c \in Calls, by \in Members, idx \in 1..MaxAsk, amendment \in Amendments :
          AmendCall(c, QID, by, idx, amendment)
    \/ \E c \in Calls : AmendDelete(c)
    \/ \E c \in Calls : AmendSend(c)

SpecAmend == InitAmend /\ [][NextAmend]_vars

\* ----------------------------------------------------------- properties
TookNext == out'.op = "takenext" /\ out'.res = "Assigned"

\* C1: when the waiting list is not empty and no waiting member is ready,
\* takenext (called by a reviewer who is in a voice channel) reports
\* NoneReady, records no assignment and leaves the queue as it was.
C1_NoneReadyRestores ==
    [][(/\ out'.op = "takenext"
        /\ out'.res # "NoVoice"
        /\ queue # <<>>
        /\ Range(queue) \cap ready = {})
       => (out'.res = "NoneReady" /\ assigned' = assigned /\ queue' = queue)]_vars

\* C2: in every state reached by complete enqueue, remove, takenext and
\* putback commands from the empty queue, no id is in the queue twice.
C2_NoDuplicates == NoDup(queue)

\* C3: with only enqueue and remove, the queue never holds an id twice,
\* enqueue of an absent id appends it at the tail (and changes nothing when
\* the id is present), and remove deletes that id and keeps the order of
\* the others.
C3_InsertionOrder ==
    /\ [](NoDup(queue))
    /\ [][/\ out'.op = "enqueue" =>
                queue' = IF out'.uid \in Range(queue) THEN queue
                         ELSE queue \o <<out'.uid>>
          /\ out'.op = "remove" =>
                queue' = SelectSeq(queue, LAMBDA x : x # out'.uid)]_vars

\* C3 witness: a member that left and queued again stands behind a member
\* that queued after its first turn.
C3_Witness ==
    /\ out.op = "enqueue" /\ out.res = "Added" /\ out.uid = 1
    /\ queue = <<2, 1>>

\* C4: enqueue of an id that is in the queue leaves the queue unchanged and
\* reports AlreadyQueued with the number of entries in front of the id;
\* enqueue of an absent id reports Added with the position of the new tail
\* entry, counted from 1 (the new length).
C4_EnqueueIdempotent ==
    [][out'.op = "enqueue" =>
          IF out'.uid \in Range(queue)
          THEN /\ queue' = queue
               /\ out'.res = "AlreadyQueued"
               /\ out'.pos \in 0..(Len(queue) - 1)
               /\ queue[out'.pos + 1] = out'.uid
               /\ \A i \in 1..out'.pos : queue[i] # out'.uid
          ELSE /\ out'.res = "Added"
               /\ out'.pos = Len(queue) + 1
               /\ Len(queue') = out'.pos
               /\ queue'[out'.pos] = out'.uid
               /\ SubSeq(queue', 1, Len(queue)) = queue]_vars

\* C4 witness: an enqueue of a queued id that has one member in front.
C4_Witness ==
    /\ out.op = "enqueue" /\ out.res = "AlreadyQueued" /\ out.pos = 1
    /\ Len(queue) = 2 /\ queue[2] = out.uid

\* C5: after a takenext that assigned a member, with m skipped members and n
\* members left after the last pop: when n <= m the skipped members are the
\* tail of the queue, else they stand at the positions from min(n \div 2, 10)
\* on; in both cases in their order, with the other members in their order
\* around them.
C5_FairReinsert ==
    [][TookNext =>
          LET skipped == out'.skipped
              m == Len(skipped)
              n == Len(queue) - m - 1
              others == SubSeq(queue, m + 2, Len(queue))
              at == IF n <= m THEN n ELSE IF n \div 2 <= 10 THEN n \div 2 ELSE 10
          IN  /\ skipped = SubSeq(queue, 1, m)
              /\ Len(queue') = n + m
              /\ \A i \in 1..m : queue'[at + i] = skipped[i]
              /\ \A i \in 1..at : queue'[i] = others[i]
              /\ \A i \in (at + 1)..n : queue'[m + i] = others[i]]_vars

\* C5 witness: one skipped member, 22 members left: the skipped member is
\* placed at index 10, not at index 11.
C5_Witness ==
    /\ out.op = "takenext" /\ out.res = "Assigned"
    /\ Len(out.skipped) = 1
    /\ Len(queue) = 23
    /\ queue[11] = out.skipped[1]

\* C6: a putback that put a member back leaves the reviewer without an
\* assignment.
C6_PutBackClears ==
    [][(out'.op = "putback" /\ out'.res = "PutBack")
       => out'.by \notin DOMAIN assigned']_vars

Popped(c) ==
    LET t == tasks[c]
    IN  Range(t.unready)
        \cup (IF t.pc \in {"fetch", "dm"} THEN {t.member} ELSE {})
        \cup (IF t.got # 0 THEN {t.got} ELSE {})

\* The members call c has popped and not placed back in the queue.
InHand(c) ==
    LET t == tasks[c]
    IN  IF t.pc \in {"fetch", "dm", "send"}
        THEN Range(t.unready) \cup (IF t.pc = "send" THEN {} ELSE {t.member})
        ELSE IF t.got # 0 THEN {t.got} ELSE {}

\* C8, as claimed: two interleaved takenext calls never assign the same
\* member and no id is popped by both.
C8_NeverPoppedByBoth ==
    (tasks[1].pc # "idle" /\ tasks[2].pc # "idle") => Popped(1) \cap Popped(2) = {}

\* C8, amended: two interleaved takenext calls never assign the same member
\* and never hold the same id at the same time (an id one call passed over
\* and placed back may be popped by the other).
C8_NeverHeldByBoth ==
    /\ InHand(1) \cap InHand(2) = {}
    /\ (tasks[1].got # 0 /\ tasks[2].got # 0) => tasks[1].got # tasks[2].got

\* C8 witness: call 1 has popped the member that call 2, still in flight,
\* passed over and placed back.
C8_Witness ==
    /\ tasks[2].pc = "edit" /\ tasks[2].got # 0
    /\ tasks[1].pc = "fetch"
    /\ tasks[1].member \in Range(tasks[2].unready)

\* The members call c has found not ready and not yet placed back.
SkippedInFlight(c) ==
    LET t == tasks[c]
    IN  IF t.pc \in {"fetch", "dm", "send"}
        THEN Range(t.unready) \cup (IF t.pc = "dm" THEN {t.member} ELSE {})
        ELSE {}

\* C9: at no await of a takenext call is a skipped member missing from the
\* queue.
C9_SkippedNeverMissing == \A c \in Calls : SkippedInFlight(c) \subseteq Range(queue)

\* C10: a save, also one that runs while a takenext call is suspended,
\* records every skipped member that call holds.
C10_SaveKeepsSkipped ==
    out.op = "save" => \A c \in Calls : SkippedInFlight(c) \subseteq Range(disk.qdata)

\* ------------------------------------------- properties of Queue.queues
\* C11: makequeue in a channel that has a queue answers that the channel
\* already has one and leaves the registry, that queue with its kind and all
\* it holds included, as it was; in a channel without a queue it registers an
\* empty queue of the requested kind and leaves the other queues alone.
C11_OneQueuePerKey ==
    [][out'.op = "makequeue" =>
          LET qid == out'.qid
          IN  IF qid \in DOMAIN queues
              THEN out'.res = "AlreadyExists" /\ queues' = queues
              ELSE out'.info \in Kinds =>
                      /\ out'.res = "Created"
                      /\ DOMAIN queues' = (DOMAIN queues) \cup {qid}
                      /\ \A k \in DOMAIN queues : queues'[k] = queues[k]
                      /\ queues'[qid].qtype = out'.info
                      /\ queues'[qid].queue = <<>>
                      /\ out'.info = "Review" => queues'[qid].assigned = <<>>
                      /\ out'.info = "Question" =>
                             queues'[qid].answers = <<>> /\ queues'[qid].maxidx = 0]_vars

C11_Witness ==
    /\ out.op = "makequeue"
    /\ out.res = "AlreadyExists"
    /\ queues[out.qid].queue # <<>>
    /\ queues[out.qid].qtype # out.info
    /\ \E k \in DOMAIN queues : k # out.qid

\* The fields of a queue object, without the history fields of the model.
Fields(q) ==
    IF q.qtype = "Review" THEN q
    ELSE LET F(e) == [idx |-> e.idx, qmsg |-> e.qmsg, disc_msg |-> e.disc_msg,
                      followers |-> e.followers]
         IN  [q EXCEPT !.queue = [i \in 1..Len(q.queue) |-> F(q.queue[i])],
                       !.answers = [k \in DOMAIN q.answers |-> F(q.answers[k])]]

\* C12: loadqueue and loadallqueues leave every queue that is registered
\* when they run as it was: its waiting list, or its open questions, its
\* answered questions and its highest index.
C12_LoadSkipsActive ==
    [][out'.op \in {"loadqueue", "loadallqueues"} =>
          \A k \in DOMAIN queues :
             k \in DOMAIN queues' /\ Fields(queues'[k]) = Fields(queues[k])]_vars

\* C13: a Review queue saved with a waiting list and loaded in a channel
\* that has no queue is a Review queue with that waiting list, member for
\* member in the same order.
C13_ReviewRoundTrip ==
    [][(/\ out'.op = "loadqueue"
        /\ out'.qid \notin DOMAIN queues
        /\ out'.qid \in DOMAIN snap
        /\ snap[out'.qid].qtype = "Review")
          => /\ out'.res = "Loaded"
             /\ out'.qid \in DOMAIN queues'
             /\ queues'[out'.qid].qtype = "Review"
             /\ queues'[out'.qid].queue = snap[out'.qid].waiting]_vars

C13_Witness ==
    /\ out.op = "loadqueue"
    /\ out.res = "Loaded"
    /\ out.info = <<FALSE>>
    /\ queues[out.qid].qtype = "Review"
    /\ Len(queues[out.qid].queue) = NumPart
    /\ queues[out.qid].queue[1] > queues[out.qid].queue[2]
    /\ NoDup(queues[out.qid].queue)

\* C14: a Question queue saved with k open questions and loaded in a channel
\* that has no queue holds them under the indices 1..k in their order, each
\* with its text and its followers, holds no answered question, and gives the
\* next question asked the index k + 1.
C14_QuestionRoundTrip ==
    [][(/\ out'.op = "loadqueue"
        /\ out'.qid \notin DOMAIN queues
        /\ out'.qid \in DOMAIN snap
        /\ snap[out'.qid].qtype = "Question")
          => LET open == snap[out'.qid].open
                 k == Len(open)
             IN  /\ out'.res = "Loaded"
                 /\ out'.qid \in DOMAIN queues'
                 /\ queues'[out'.qid].qtype = "Question"
                 /\ Len(queues'[out'.qid].queue) = k
                 /\ \A i \in 1..k :
                       /\ queues'[out'.qid].queue[i].idx = i
                       /\ queues'[out'.qid].queue[i].qmsg = open[i].qmsg
                       /\ queues'[out'.qid].queue[i].followers = open[i].followers
                 /\ queues'[out'.qid].answers = <<>>
                 /\ NewIndex(queues'[out'.qid]) = k + 1]_vars

C14_Witness ==
    /\ out.op = "loadqueue"
    /\ out.res = "Loaded"
    /\ out.info = <<FALSE>>
    /\ queues[out.qid].qtype = "Question"
    /\ queues[out.qid].queue # <<>>
    /\ snap[out.qid].open[1].idx # 1
    /\ Len(queues[out.qid].queue[1].followers) > 1

\* ------------------------------------------ properties of QuestionQueue
\* The indices of the open and of the answered questions of a queue.
Indices(q) == LedgerKeys(q.queue) \cup DOMAIN q.answers

\* C15: over the ask, follow, answer and amend commands of a Question queue
\* the highest index never goes down, a question that is asked gets an index
\* above every index given before, and no index is given to two questions: the
\* new index is that of no open or answered question, and the questions that
\* were open stay as they were.
C15_IndicesNeverReused ==
    [][/\ queues'[QID].maxidx >= queues[QID].maxidx
       /\ \A k \in Indices(queues'[QID]) : k <= queues'[QID].maxidx
       /\ LedgerKeys(queues'[QID].queue) \cap DOMAIN queues'[QID].answers = {}
       /\ (out'.op = "ask" /\ out'.res = "Asked") =>
             /\ out'.idx > queues[QID].maxidx
             /\ out'.idx \notin Indices(queues[QID])
             /\ queues'[QID].queue # <<>>
             /\ queues'[QID].queue
                    = Append(queues[QID].queue, queues'[QID].queue[Len(queues'[QID].queue)])
             /\ queues'[QID].queue[Len(queues'[QID].queue)].idx = out'.idx
             /\ queues'[QID].answers = queues[QID].answers]_vars

C15_Witness ==
    /\ out.op = "ask"
    /\ out.res = "Asked"
    /\ out.idx > 1
    /\ Len(queues[QID].queue) = 1
    /\ DOMAIN queues[QID].answers # {}

\* C16: follow of an open question by a member that does not follow it
\* answers NowFollowing and appends the member to the followers; by a member
\* that follows it, it answers AlreadyFollowing and leaves the followers as
\* they were.
C16_FollowIdempotent ==
    [][(out'.op = "follow" /\ out'.idx \in LedgerKeys(queues[QID].queue)) =>
          LET before == LedgerGet(queues[QID].queue, out'.idx).followers
              after == LedgerGet(queues'[QID].queue, out'.idx).followers
          IN  IF out'.uid \in Range(before)
              THEN out'.res = "AlreadyFollowing" /\ after = before
              ELSE out'.res = "NowFollowing" /\ after = Append(before, out'.uid)]_vars

C16_Witness ==
    /\ out.op = "follow"
    /\ out.res = "AlreadyFollowing"
    /\ out.idx \in LedgerKeys(queues[QID].queue)
    /\ LedgerGet(queues[QID].queue, out.idx).followers[1] # out.uid
    /\ Len(LedgerGet(queues[QID].queue, out.idx).followers) = 2

\* C17: an answer that succeeds takes the question out of the open questions
\* and puts it, with its text and followers, among the answered ones; amend
\* succeeds exactly for the index of an answered question and answers NotFound
\* for the index of an open one.
C17_AnswerThenAmend ==
    [][/\ (out'.op = "answer" /\ out'.res \in {"AnsweredByText", "AnsweredByVoice"}) =>
             /\ out'.idx \in LedgerKeys(queues[QID].queue)
             /\ out'.idx \notin LedgerKeys(queues'[QID].queue)
             /\ out'.idx \in DOMAIN queues'[QID].answers
             /\ queues'[QID].answers[out'.idx].qmsg = LedgerGet(queues[QID].queue, out'.idx).qmsg
             /\ queues'[QID].answers[out'.idx].followers
                    = LedgerGet(queues[QID].queue, out'.idx).followers
       /\ out'.op = "amend" =>
             /\ out'.res = "Amended" <=> out'.idx \in DOMAIN queues[QID].answers
             /\ out'.idx \in LedgerKeys(queues[QID].queue) => out'.res = "NotFound"
             /\ out'.res \in {"Amended", "NotFound"}]_vars

C17_Witness ==
    /\ out.op = "amend"
    /\ out.res = "Amended"
    /\ AmendCount(queues[QID].answers[out.idx].disc_msg.content) = 1
    /\ queues[QID].queue # <<>>
    /\ out.idx \notin LedgerKeys(queues[QID].queue)

\* C18 as stated: whereami right after a member's question is asked lists that
\* question as the member's own at position 0.
C18_OwnAtPositionZero ==
    [][(out.op = "ask" /\ out.res = "Asked" /\ out'.op = "whereis" /\ out'.uid = out.uid) =>
          \E i \in 1..Len(out'.info) :
             out'.info[i] = [own |-> TRUE, idx |-> out.idx, pos |-> 0]]_vars

\* C18 amended: whereami right after a member's question is asked lists that
\* question as the member's own at the position it has among the open
\* questions, the number of open questions less one.
C18_OwnAtLastPosition ==
    [][(out.op = "ask" /\ out.res = "Asked" /\ out'.op = "whereis" /\ out'.uid = out.uid) =>
          \E i \in 1..Len(out'.info) :
             out'.info[i] = [own |-> TRUE, idx |-> out.idx,
                             pos |-> Len(queues[QID].queue) - 1]]_vars

C18_Witness ==
    /\ out.op = "whereis"
    /\ out.res = "Following"
    /\ \E i \in 1..Len(out.info) :
          /\ out.info[i].own
          /\ out.info[i].idx = queues[QID].maxidx
          /\ out.info[i].pos > 0

\* C19: an amend that succeeds puts its amendment right before the line of
\* the answerer of the answer as it is shown when the amend ends, after the
\* amendments made before and with nothing of them lost, and mentions the
\* followers of the question, also when amends run interleaved.
C19_AmendmentsAccumulate ==
    [][(out'.op = "amend" /\ out'.res = "Amended") =>
          LET f == amends[out'.info[1]]
              old == queues[QID].answers[out'.idx].disc_msg.content
              new == queues'[QID].answers[out'.idx].disc_msg
          IN  /\ new.content = SubSeq(old, 1, Len(old) - 2)
                                  \o AmendText(f.by, f.amendment)
                                  \o SubSeq(old, Len(old) - 1, Len(old))
              /\ new.mentions = queues[QID].answers[out'.idx].followers
              /\ queues'[QID].answers[out'.idx].followers
                     = queues[QID].answers[out'.idx].followers]_vars

\* C20: every open and every answered question has followers, no member
\* twice among them, and the member that asked it first.
C20_FollowersInvariant ==
    LET q == queues[QID]
        Ok(e) == e.followers # <<>> /\ NoDup(e.followers) /\ e.followers[1] = e.askedby
    IN  /\ \A i \in 1..Len(q.queue) : Ok(q.queue[i])
        /\ \A k \in DOMAIN q.answers : Ok(q.answers[k])

C20_Witness ==
    /\ \E i \in 1..Len(queues[QID].queue) : Len(queues[QID].queue[i].followers) = 2
    /\ \E k \in DOMAIN queues[QID].answers :
          /\ Len(queues[QID].answers[k].followers) = 2
          /\ AmendCount(queues[QID].answers[k].disc_msg.content) = 1

\* ---------------------------------------------------------------------
\* Properties of takenext, putback and the failure paths of the review
\* queue (specification Spec).

\* The index of the first ready member of q (0 when none is ready).
FirstReady(q) ==
    IF \E i \in 1..Len(q) : q[i] \in ready
    THEN CHOOSE i \in 1..Len(q) : q[i] \in ready /\ \A j \in 1..(i - 1) : q[j] \notin ready
    ELSE 0

\* C21: when at least one waiting member is ready, takenext (called by a
\* reviewer who is in a voice channel) assigns to the reviewer the first
\* member in queue order who is ready, and the members it passed over are
\* exactly those ahead of that member, in their order in the queue.
C21_FirstReadyAssigned ==
    [][(/\ out'.op = "takenext"
        /\ out'.res # "NoVoice"
        /\ FirstReady(queue) # 0)
       => (/\ out'.res = "Assigned"
           /\ out'.uid = queue[FirstReady(queue)]
           /\ out'.by \in DOMAIN assigned'
           /\ assigned'[out'.by][1] = queue[FirstReady(queue)]
           /\ out'.skipped = SubSeq(queue, 1, FirstReady(queue) - 1))]_vars

\* C21 witness: a takenext has passed over a member who was not ready and
\* assigned the ready member behind.
C21_Witness ==
    /\ out.op = "takenext" /\ out.res = "Assigned"
    /\ out.skipped # <<>>
    /\ out.uid \in ready
    /\ out.uid \notin Range(out.skipped)
    /\ out.by \in DOMAIN assigned /\ assigned[out.by][1] = out.uid

\* C22: for a reviewer who has an assignment and a position pos >= 0,
\* putback inserts the assigned member at index min(pos, len(queue)), the
\* length taken before the insertion, and every other entry keeps its place
\* relative to the others.
C22_PutBackPosition ==
    [][(/\ out'.op = "putback"
        /\ out'.by \in DOMAIN assigned
        /\ out'.pos >= 0)
       => LET p == IF out'.pos <= Len(queue) THEN out'.pos ELSE Len(queue)
          IN  /\ out'.res = "PutBack"
              /\ out'.uid = assigned[out'.by][1]
              /\ Len(queue') = Len(queue) + 1
              /\ queue'[p + 1] = assigned[out'.by][1]
              /\ \A i \in 1..Len(queue) :
                    queue'[IF i <= p THEN i ELSE i + 1] = queue[i]]_vars

\* C22 witness: a putback at position 0 has placed the assigned member in
\* front of a member who was waiting.
C22_Witness ==
    /\ out.op = "putback" /\ out.res = "PutBack" /\ out.pos = 0
    /\ Len(queue) = 2
    /\ queue[1] = out.uid
    /\ queue[2] # out.uid

\* C23: the failed review-queue commands change nothing.  A remove of an id
\* that is not listed reports NotFound, a takenext on an empty queue (by a
\* reviewer in a voice channel) reports Empty, a putback by a reviewer
\* without an assignment reports NoAssignment; each leaves the queue and
\* the assignments as they were.
C23_FailuresChangeNothing ==
    [][/\ (out'.op = "remove" /\ out'.uid \notin Range(queue))
              => out'.res = "NotFound"
       /\ (out'.op = "takenext" /\ out'.res \notin {"NoVoice", "Await"}
              /\ (\A c \in Calls : tasks[c].pc = "idle") /\ queue = <<>>)
              => out'.res = "Empty"
       /\ (out'.op = "putback" /\ out'.by \notin DOMAIN assigned)
              => out'.res = "NoAssignment"
       /\ out'.res \in {"NotFound", "Empty", "NoAssignment"}
              => (queue' = queue /\ assigned' = assigned)]_vars

\* C23 witness: a remove of an id that is not listed has failed while
\* another member is waiting and a reviewer has an assignment.
C23_Witness ==
    /\ out.op = "remove" /\ out.res = "NotFound"
    /\ queue # <<>>
    /\ DOMAIN assigned # {}

\* ---------------------------------------------------------------------
\* Properties of the failure paths of the question queue (specification
\* SpecQ).

\* C24: the failed question-queue commands change nothing.  An ask with a
\* blank text is rejected (so every question stored has a text), a follow or
\* an answer of an index that is not in the queue and an amend of an index
\* that is not among the answers report that nothing was found, and each of
\* these, like a voice answer by a member without a voice channel, leaves
\* the questions, the answers, every followers list and maxidx as they were:
\* a rejected ask uses up no index.
C24_FailuresChangeNothing ==
    [][LET q == queues[QID]
       IN  /\ (out'.op = "ask" /\ out'.res # "EmptyQuestion")
                  => /\ out'.idx \in LedgerKeys(queues'[QID].queue)
                     /\ LedgerGet(queues'[QID].queue, out'.idx).qmsg # <<>>
                     /\ Head(LedgerGet(queues'[QID].queue, out'.idx).qmsg) # Space
           /\ (out'.op = "follow" /\ out'.idx # 0 /\ out'.idx \notin LedgerKeys(q.queue))
                  => out'.res \in {"NotFound", "NoQuestions"}
           /\ (out'.op = "answer" /\ out'.idx \notin LedgerKeys(q.queue))
                  => out'.res = "NotFound"
           /\ (out'.op = "amend" /\ out'.idx \notin DOMAIN q.answers)
                  => out'.res = "NotFound"
           /\ (/\ out'.op \in {"ask", "follow", "answer", "amend"}
               /\ out'.res \in {"EmptyQuestion", "NotFound", "NoQuestions", "NoLocation"})
                  => queues' = queues]_vars

\* C24 witness: an ask without a text has been rejected in a queue that has
\* an open and an answered question.
C24_Witness ==
    /\ out.op = "ask" /\ out.res = "EmptyQuestion"
    /\ queues[QID].maxidx = 2
    /\ LedgerKeys(queues[QID].queue) # {}
    /\ DOMAIN queues[QID].answers # {}

\* ---------------------------------------------------------------------
\* Properties of interleaved ask commands (specification SpecAsk) and of
\* interleaved answer commands (specification SpecAnswer).

\* C25: two ask commands that interleave at the await of add are given
\* different indices, each question is stored and reported under the index
\* in the title of its message, and neither question overwrites the other.
C25_InterleavedAsksKeepBoth ==
    [][/\ \A c \in Calls, d \in Calls :
             (c # d /\ qcalls'[c].pc = "render" /\ qcalls'[d].pc = "render")
                 => qcalls'[c].idx # qcalls'[d].idx
       /\ (out'.op = "ask" /\ out'.res = "Asked")
             => /\ out'.idx = out'.info[2]
                /\ out'.idx \notin LedgerKeys(queues[QID].queue)
                /\ Len(queues'[QID].queue) = Len(queues[QID].queue) + 1]_vars

\* C26: every index given to a question is, in every state and so at every
\* await of an answer in progress, either in the queue or among the answers
\* and not in both; and an answer command for an index that another answer
\* in progress has taken reports that there is no such question.
C26_OpenOrAnswered ==
    [][/\ \A idx \in 1..queues'[QID].maxidx :
             (idx \in LedgerKeys(queues'[QID].queue)) # (idx \in DOMAIN queues'[QID].answers)
       /\ (/\ out'.op = "answer"
           /\ out'.res \in {"Called", "NotFound", "NoLocation"}
           /\ \E d \in Calls : qcalls[d].pc # "idle" /\ qcalls[d].idx = out'.idx)
             => out'.res = "NotFound"]_vars

\* ---------------------------------------------------------------------
\* Properties of a takenext call with queueme and removeme commands running
\* at its awaits (specification SpecAsync).

\* The members that are waiting: those in the queue q and those the
\* takenext call with frame t has popped and not yet placed back or
\* assigned.
Waiting(q, t) ==
    Range(q)
    \cup (IF t.pc \in {"fetch", "dm", "send"} THEN Range(t.unready) ELSE {})
    \cup (IF t.pc \in {"fetch", "dm"} THEN {t.member} ELSE {})

\* C27: takenext loses no member when queueme and removeme run at its
\* awaits: no step of takenext takes a member out of the waiting ones other
\* than the member it assigns, so when the call completes every member who
\* was added and neither removed nor assigned is in the queue; the queue is
\* not overwritten when the call reports that no one is ready.
C27_NoMemberLost ==
    [][out'.op = "takenext"
       => Waiting(queue, tasks[1])
             \subseteq (Waiting(queue', tasks'[1])
                           \cup (IF out'.res = "Assigned" THEN {out'.uid} ELSE {}))]_vars

\* C28: the queue stays free of duplicates under interleaving: when a
\* takenext places back the members it passed over, one of whom has called
\* queueme again while the call was suspended, no member is in the queue
\* twice.
C28_ReinsertKeepsNoDup ==
    [][(/\ out'.op = "takenext"
        /\ out'.res \in {"Assigned", "NoneReady"}
        /\ NoDup(queue)
        /\ NoDup(tasks[1].unready))
       => NoDup(queue')]_vars

\* ---------------------------------------------------------------------
\* Termination of takenext (specification SpecTerm).

\* The pops call c has made.
Pops(c) ==
    LET t == tasks[c]
    IN  IF t.pc = "idle" THEN 0
        ELSE IF t.pc = "send" THEN Len(t.unready)
        ELSE Len(t.unready) + 1

\* The members call c has popped, in the order of the pops.
PoppedSeq(c) ==
    LET t == tasks[c]
    IN  IF t.pc = "idle" THEN <<>>
        ELSE IF t.pc = "send" THEN t.unready
        ELSE IF t.pc \in {"fetch", "dm"} THEN Append(t.unready, t.member)
        ELSE Append(t.unready, t.got)

\* C29: takenext terminates.  On a queue that no queueme adds to while the
\* call runs, the loop pops each member at most once and the call makes at
\* most as many pops as the queue had members when it began; every call
\* that has begun completes (with the queue empty, no one ready, or an
\* assignment).
C29_TakeNextTerminates ==
    /\ [](NoDup(PoppedSeq(1)) /\ Pops(1) <= tasks[1].len0)
    /\ (tasks[1].pc # "idle") ~> (tasks[1].pc = "idle")

\* C29 witness: a call that began with a full queue has popped every member
\* of it, the last of them being assigned.
C29_Witness ==
    /\ tasks[1].pc = "edit"
    /\ tasks[1].len0 = NumPart
    /\ Pops(1) = NumPart
    /\ queue = tasks[1].unready

====
